---- MODULE Spec2Model ----
(***************************************************************************)
(* mp4snoop: ISO Base Media File Format box scanner (src/mp4snoop.py).     *)
(*                                                                         *)
(* The file on disk is a sequence of bytes (0..255).  The scanner is one   *)
(* cursor (the file object's position) threaded through scan() and the     *)
(* container walkers it recurses into; the recursion is a stack of frames, *)
(* one per active scan_xxx container loop.  Leaf decoders are functions of *)
(* the bytes and the cursor, returning the cursor they leave behind and    *)
(* the exception they raise, if any.                                       *)
(***************************************************************************)
EXTENDS Integers, Sequences, FiniteSets, TLC

VARIABLES
    disk,        \* bytes of "sample-video.mp4" on disk
    fileExists,  \* whether open() finds the file
    pc,          \* position of the __main__ block
    handleOpen,  \* self.file is an open file object
    filesize,    \* self.filesize
    pos,         \* self.file.tell()
    stack,       \* active range-scanning loops, innermost last
    numBoxes,    \* scan()'s numBoxes
    exc,         \* exception in flight ("none" when there is none)
    tops,        \* "Box Found" lines printed by scan(): <<start, boxsize, boxtype>>
    box,         \* the header most recently resolved by scan_box, and how it was dispatched
    returned,    \* the box whose decoder (or skip) has just returned
    printed      \* whether scan() printed its "%d boxes scanned" line

vars == <<disk, fileExists, pc, handleOpen, filesize, pos, stack, numBoxes,
          exc, tops, box, returned, printed>>

----------------------------------------------------------------------------
(* Bounds of the model *)

MaxBrands == 1      \* compatible brands in a generated ftyp
MaxCut == 9         \* bytes cut off the end of a file, at most
MaxRawSize == 9     \* largest size32/size64 of a hand-made header
NumBoxesCap == 6    \* scan() iterations counted before the model stops counting

----------------------------------------------------------------------------
(* Bytes and sequences *)

Min(a, b) == IF a < b THEN a ELSE b
Max(a, b) == IF a > b THEN a ELSE b

Zeros(n) == [i \in 1..n |-> 0]

RECURSIVE Flatten(_)
Flatten(ss) == IF ss = <<>> THEN <<>> ELSE Head(ss) \o Flatten(Tail(ss))

\* struct.pack('>I', v) / ('>Q', v): the big-endian encoding a producer writes
RECURSIVE BE(_, _)
BE(v, n) == IF n = 0 THEN <<>> ELSE BE(v \div 256, n - 1) \o <<v % 256>>

\* struct.unpack of a big-endian unsigned integer from a byte string
RECURSIVE unpack_uint(_)
unpack_uint(bytes) ==
    IF bytes = <<>> THEN 0
    ELSE unpack_uint(SubSeq(bytes, 1, Len(bytes) - 1)) * 256 + bytes[Len(bytes)]

----------------------------------------------------------------------------
(* Four-character codes, as the bytes scan_fourcc returns *)

ftyp == <<102, 116, 121, 112>>
moov == <<109, 111, 111, 118>>
mvhd == <<109, 118, 104, 100>>
trak == <<116, 114, 97, 107>>
udta == <<117, 100, 116, 97>>
tkhd == <<116, 107, 104, 100>>
mdia == <<109, 100, 105, 97>>
edts == <<101, 100, 116, 115>>
mdhd == <<109, 100, 104, 100>>
hdlr == <<104, 100, 108, 114>>
minf == <<109, 105, 110, 102>>
dinf == <<100, 105, 110, 102>>
stbl == <<115, 116, 98, 108>>
vmhd == <<118, 109, 104, 100>>
smhd == <<115, 109, 104, 100>>
hmhd == <<104, 109, 104, 100>>
nmhd == <<110, 109, 104, 100>>
dref == <<100, 114, 101, 102>>
url_ == <<117, 114, 108, 32>>
urn_ == <<117, 114, 110, 32>>
elst == <<101, 108, 115, 116>>
free == <<102, 114, 101, 101>>

----------------------------------------------------------------------------
(* The file object: read and seek *)

NoExc == "none"

\* file.read(n) at position p: the bytes actually delivered.  A negative n
\* reads to end of file; a read at or past end of file delivers nothing.
file_read(f, p, n) ==
    IF p >= Len(f) THEN <<>>
    ELSE IF n < 0 THEN SubSeq(f, p + 1, Len(f))
    ELSE SubSeq(f, p + 1, Min(p + n, Len(f)))

\* A cursor is [pos, exc]: the position of the file object and the exception
\* raised so far.  Once an exception is raised nothing further executes.
Cursor(p) == [pos |-> p, exc |-> NoExc]

\* struct.unpack(fmt, self.file.read(n)) for a format of n bytes: a short read
\* makes struct.unpack raise struct.error.
unpack_read(f, c, n) ==
    IF c.exc # NoExc THEN c
    ELSE LET data == file_read(f, c.pos, n) IN
         [pos |-> c.pos + Len(data),
          exc |-> IF Len(data) = n THEN NoExc ELSE "struct.error"]

\* self.file.seek(n, os.SEEK_CUR): no check against the file size.
seek_cur(c, n) ==
    IF c.exc # NoExc THEN c
    ELSE IF c.pos + n < 0 THEN [pos |-> c.pos, exc |-> "IOError"]
    ELSE [pos |-> c.pos + n, exc |-> NoExc]

scan_uint16(f, c) == unpack_read(f, c, 2)
scan_int16(f, c) == unpack_read(f, c, 2)
scan_uint16_3(f, c) == unpack_read(f, c, 6)
scan_uint32(f, c) == unpack_read(f, c, 4)
scan_int32(f, c) == unpack_read(f, c, 4)
scan_uint64(f, c) == unpack_read(f, c, 8)
scan_int64(f, c) == unpack_read(f, c, 8)
scan_fourcc(f, c) == unpack_read(f, c, 4)

\* the value a successful scan_uintNN at position p returns
uint_at(f, p, n) == unpack_uint(SubSeq(f, p + 1, p + n))

\* scan_string: read single bytes until a 0x00; indexing the empty string
\* that read(1) returns at end of file raises IndexError.
RECURSIVE scan_string(_, _)
scan_string(f, c) ==
    IF c.exc # NoExc THEN c
    ELSE IF c.pos >= Len(f) THEN [pos |-> c.pos, exc |-> "IndexError"]
    ELSE IF f[c.pos + 1] = 0 THEN [pos |-> c.pos + 1, exc |-> NoExc]
    ELSE scan_string(f, [pos |-> c.pos + 1, exc |-> NoExc])

----------------------------------------------------------------------------
(* Box headers *)

\* mutant: the size-0 form computed without adding the header back
scan_box_rest_short(f, fsize, p) ==
    LET c1 == scan_uint32(f, Cursor(p))
        c2 == scan_fourcc(f, c1)
        size32 == uint_at(f, p, 4)
        boxtype == SubSeq(f, p + 5, p + 8)
        c3 == scan_uint64(f, c2)
    IN  IF c2.exc # NoExc
        THEN [exc |-> c2.exc, pos |-> c2.pos, boxsize |-> 0, boxtype |-> <<>>, skip |-> 0]
        ELSE IF size32 = 1
        THEN IF c3.exc # NoExc
             THEN [exc |-> c3.exc, pos |-> c3.pos, boxsize |-> 0, boxtype |-> <<>>, skip |-> 0]
             ELSE [exc |-> NoExc, pos |-> c3.pos, boxsize |-> uint_at(f, p + 8, 8),
                   boxtype |-> boxtype, skip |-> uint_at(f, p + 8, 8) - 16]
        ELSE IF size32 = 0
        THEN LET curpos == c2.pos
                 boxsize == fsize - curpos
             IN  [exc |-> NoExc, pos |-> c2.pos, boxsize |-> boxsize,
                  boxtype |-> boxtype, skip |-> boxsize - 8]
        ELSE [exc |-> NoExc, pos |-> c2.pos, boxsize |-> size32,
              boxtype |-> boxtype, skip |-> size32 - 8]

\* scan_box at box start p: (boxsize, boxtype, skip), the cursor after the
\* header, and the exception of a failed header read.
scan_box(f, fsize, p) ==
    LET c1 == scan_uint32(f, Cursor(p))
        c2 == scan_fourcc(f, c1)
        size32 == uint_at(f, p, 4)
        boxtype == SubSeq(f, p + 5, p + 8)
        c3 == scan_uint64(f, c2)
    IN  IF c2.exc # NoExc
        THEN [exc |-> c2.exc, pos |-> c2.pos, boxsize |-> 0, boxtype |-> <<>>, skip |-> 0]
        ELSE IF size32 = 1
        THEN IF c3.exc # NoExc
             THEN [exc |-> c3.exc, pos |-> c3.pos, boxsize |-> 0, boxtype |-> <<>>, skip |-> 0]
             ELSE [exc |-> NoExc, pos |-> c3.pos, boxsize |-> uint_at(f, p + 8, 8),
                   boxtype |-> boxtype, skip |-> uint_at(f, p + 8, 8) - 16]
        ELSE IF size32 = 0
        THEN LET curpos == c2.pos
                 boxsize == (fsize - curpos) + 8
             IN  [exc |-> NoExc, pos |-> c2.pos, boxsize |-> boxsize,
                  boxtype |-> boxtype, skip |-> boxsize - 8]
        ELSE [exc |-> NoExc, pos |-> c2.pos, boxsize |-> size32,
              boxtype |-> boxtype, skip |-> size32 - 8]

\* scan_fullbox: one uint32 read; version is its top byte, flags the rest.
scan_fullbox(f, c) == scan_uint32(f, c)
fullbox_version(f, p) == (uint_at(f, p, 4) \div 16777216) % 256
fullbox_flags(f, p) == uint_at(f, p, 4) % 16777216

----------------------------------------------------------------------------
(* Leaf decoders.  Each takes the file, the cursor position p at the start  *)
(* of the payload and the `remaining` it was passed, and returns the cursor *)
(* it leaves.  A field list is a sequence of <<"read", n>> (a struct.unpack *)
(* of n bytes) and <<"seek", n>> (a relative seek).                         *)

RECURSIVE run_fields(_, _, _)
run_fields(f, c, fields) ==
    IF fields = <<>> THEN c
    ELSE LET fld == Head(fields)
             c1 == IF fld[1] = "read" THEN unpack_read(f, c, fld[2])
                   ELSE seek_cur(c, fld[2])
         IN  run_fields(f, c1, Tail(fields))

\* mutant: the version-1 duration read as 32 bits
mvhd_times_short_duration(version) ==
    IF version = 1
    THEN << <<"read", 8>>, <<"read", 8>>, <<"read", 4>>, <<"read", 4>> >>
    ELSE << <<"read", 4>>, <<"read", 4>>, <<"read", 4>>, <<"read", 4>> >>

\* creation, modification, timescale, duration
mvhd_times(version) ==
    IF version = 1
    THEN << <<"read", 8>>, <<"read", 8>>, <<"read", 4>>, <<"read", 8>> >>
    ELSE << <<"read", 4>>, <<"read", 4>>, <<"read", 4>>, <<"read", 4>> >>

\* rate, volume, reserved, matrix, pre_defined, nextTrackID
mvhd_rest ==
    << <<"read", 4>>, <<"read", 2>>, <<"seek", 10>>, <<"read", 36>>,
       <<"seek", 24>>, <<"read", 4>> >>

scan_mvhd(f, p, remaining) ==
    LET c1 == scan_fullbox(f, Cursor(p)) IN
    IF c1.exc # NoExc THEN c1
    ELSE run_fields(f, c1, mvhd_times(fullbox_version(f, p)) \o mvhd_rest)

\* creation, modification, trackID, reserved, duration
tkhd_times(version) ==
    IF version = 1
    THEN << <<"read", 8>>, <<"read", 8>>, <<"read", 4>>, <<"read", 4>>, <<"read", 8>> >>
    ELSE << <<"read", 4>>, <<"read", 4>>, <<"read", 4>>, <<"read", 4>>, <<"read", 4>> >>

\* reserved, layer, alternateGroup, volume, reserved, matrix, width, height
tkhd_rest ==
    << <<"seek", 8>>, <<"read", 2>>, <<"read", 2>>, <<"read", 2>>, <<"read", 2>>,
       <<"read", 36>>, <<"read", 4>>, <<"read", 4>> >>

scan_tkhd(f, p, remaining) ==
    LET c1 == scan_fullbox(f, Cursor(p)) IN
    IF c1.exc # NoExc THEN c1
    ELSE run_fields(f, c1, tkhd_times(fullbox_version(f, p)) \o tkhd_rest)

\* creation, modification, timescale, duration
mdhd_times(version) ==
    IF version = 1
    THEN << <<"read", 8>>, <<"read", 8>>, <<"read", 4>>, <<"read", 8>> >>
    ELSE << <<"read", 4>>, <<"read", 4>>, <<"read", 4>>, <<"read", 4>> >>

\* language, pre_defined
mdhd_rest == << <<"read", 2>>, <<"read", 2>> >>

scan_mdhd(f, p, remaining) ==
    LET c1 == scan_fullbox(f, Cursor(p)) IN
    IF c1.exc # NoExc THEN c1
    ELSE run_fields(f, c1, mdhd_times(fullbox_version(f, p)) \o mdhd_rest)

\* mutant: the brand loop runs while remaining >= 0
RECURSIVE ftyp_brands_one_more(_, _, _)
ftyp_brands_one_more(f, c, remaining) ==
    IF c.exc # NoExc \/ remaining < 0 THEN c
    ELSE ftyp_brands_one_more(f, scan_fourcc(f, c), remaining - 4)

\* compatible brands: one fourcc per 4 bytes of `remaining` still positive
RECURSIVE ftyp_brands(_, _, _)
ftyp_brands(f, c, remaining) ==
    IF c.exc # NoExc \/ remaining <= 0 THEN c
    ELSE ftyp_brands(f, scan_fourcc(f, c), remaining - 4)

scan_ftyp(f, p, remaining) ==
    LET c2 == scan_uint32(f, scan_fourcc(f, Cursor(p)))
    IN  ftyp_brands(f, c2, remaining - 8)

\* name = self.file.read(endpos - curpos): a short or empty read is no error
scan_hdlr(f, p, remaining) ==
    LET endpos == p + remaining
        c1 == scan_fullbox(f, Cursor(p))
        c4 == seek_cur(scan_fourcc(f, scan_uint32(f, c1)), 12)
        name == file_read(f, c4.pos, endpos - c4.pos)
    IN  IF c4.exc # NoExc THEN c4
        ELSE [pos |-> c4.pos + Len(name), exc |-> NoExc]

\* the name scan_hdlr prints, once its fixed fields have been read: the bytes
\* that file.read(endpos - curpos) delivers at curpos = p + 24
hdlr_name(f, p, remaining) ==
    LET endpos == p + remaining
        curpos == p + 24
    IN  file_read(f, curpos, endpos - curpos)

scan_vmhd(f, p, remaining) ==
    scan_uint16_3(f, scan_uint16(f, scan_fullbox(f, Cursor(p))))

scan_smhd(f, p, remaining) ==
    scan_uint16(f, scan_int16(f, scan_fullbox(f, Cursor(p))))

scan_hmhd(f, p, remaining) ==
    LET c3 == scan_uint16(f, scan_uint16(f, scan_fullbox(f, Cursor(p))))
    IN  scan_uint32(f, scan_uint32(f, scan_uint32(f, c3)))

scan_nmhd(f, p, remaining) == scan_fullbox(f, Cursor(p))

scan_url_(f, p, remaining) ==
    LET c1 == scan_fullbox(f, Cursor(p)) IN
    IF c1.exc # NoExc THEN c1
    ELSE IF fullbox_flags(f, p) % 2 = 1 THEN c1
    ELSE scan_string(f, c1)

scan_urn_(f, p, remaining) ==
    scan_string(f, scan_string(f, scan_fullbox(f, Cursor(p))))

elst_entry(version) ==
    IF version = 1
    THEN << <<"read", 8>>, <<"read", 8>>, <<"read", 2>>, <<"read", 2>> >>
    ELSE << <<"read", 4>>, <<"read", 4>>, <<"read", 2>>, <<"read", 2>> >>

RECURSIVE elst_entries(_, _, _, _)
elst_entries(f, c, version, count) ==
    IF c.exc # NoExc \/ count <= 0 THEN c
    ELSE elst_entries(f, run_fields(f, c, elst_entry(version)), version, count - 1)

scan_elst(f, p, remaining) ==
    LET c2 == scan_uint32(f, scan_fullbox(f, Cursor(p))) IN
    IF c2.exc # NoExc THEN c2
    ELSE elst_entries(f, c2, fullbox_version(f, p), uint_at(f, p + 4, 4))

\* the reads scan_dref makes before its child loop: version/flags, entryCount
dref_prefix(f, p) == scan_uint32(f, scan_fullbox(f, Cursor(p)))

----------------------------------------------------------------------------
(* Dispatch: the if/elif chain of each range-scanning loop *)

Containers == {"scan_moov", "scan_trak", "scan_mdia", "scan_minf", "scan_dinf",
               "scan_dref", "scan_stbl", "scan_edts", "scan_udta"}

\* mutant: scan_mdia's hdlr branch calls the decoder of the branch above it
Dispatch_hdlr_as_mdhd(fn, boxtype) ==
    CASE fn = "scan" ->
            IF boxtype = ftyp THEN "scan_ftyp"
            ELSE IF boxtype = moov THEN "scan_moov" ELSE "skip"
      [] fn = "scan_moov" ->
            IF boxtype = mvhd THEN "scan_mvhd"
            ELSE IF boxtype = trak THEN "scan_trak"
            ELSE IF boxtype = udta THEN "scan_udta" ELSE "skip"
      [] fn = "scan_trak" ->
            IF boxtype = tkhd THEN "scan_tkhd"
            ELSE IF boxtype = mdia THEN "scan_mdia"
            ELSE IF boxtype = edts THEN "scan_edts"
            ELSE IF boxtype = udta THEN "scan_udta" ELSE "skip"
      [] fn = "scan_mdia" ->
            IF boxtype = mdhd THEN "scan_mdhd"
            ELSE IF boxtype = hdlr THEN "scan_mdhd"
            ELSE IF boxtype = minf THEN "scan_minf" ELSE "skip"
      [] fn = "scan_minf" ->
            IF boxtype = dinf THEN "scan_dinf"
            ELSE IF boxtype = stbl THEN "scan_stbl"
            ELSE IF boxtype = vmhd THEN "scan_vmhd"
            ELSE IF boxtype = smhd THEN "scan_smhd"
            ELSE IF boxtype = hmhd THEN "scan_hmhd"
            ELSE IF boxtype = nmhd THEN "scan_nmhd" ELSE "skip"
      [] fn = "scan_dinf" ->
            IF boxtype = dref THEN "scan_dref" ELSE "skip"
      [] fn = "scan_dref" ->
            IF boxtype = url_ THEN "scan_url_"
            ELSE IF boxtype = urn_ THEN "scan_urn_" ELSE "skip"
      [] fn = "scan_edts" ->
            IF boxtype = elst THEN "scan_elst" ELSE "skip"
      [] OTHER -> "skip"      \* scan_stbl, scan_udta

\* the if/elif chain of the walker fn, applied to a box type
Dispatch(fn, boxtype) ==
    CASE fn = "scan" ->
            IF boxtype = ftyp THEN "scan_ftyp"
            ELSE IF boxtype = moov THEN "scan_moov" ELSE "skip"
      [] fn = "scan_moov" ->
            IF boxtype = mvhd THEN "scan_mvhd"
            ELSE IF boxtype = trak THEN "scan_trak"
            ELSE IF boxtype = udta THEN "scan_udta" ELSE "skip"
      [] fn = "scan_trak" ->
            IF boxtype = tkhd THEN "scan_tkhd"
            ELSE IF boxtype = mdia THEN "scan_mdia"
            ELSE IF boxtype = edts THEN "scan_edts"
            ELSE IF boxtype = udta THEN "scan_udta" ELSE "skip"
      [] fn = "scan_mdia" ->
            IF boxtype = mdhd THEN "scan_mdhd"
            ELSE IF boxtype = hdlr THEN "scan_hdlr"
            ELSE IF boxtype = minf THEN "scan_minf" ELSE "skip"
      [] fn = "scan_minf" ->
            IF boxtype = dinf THEN "scan_dinf"
            ELSE IF boxtype = stbl THEN "scan_stbl"
            ELSE IF boxtype = vmhd THEN "scan_vmhd"
            ELSE IF boxtype = smhd THEN "scan_smhd"
            ELSE IF boxtype = hmhd THEN "scan_hmhd"
            ELSE IF boxtype = nmhd THEN "scan_nmhd" ELSE "skip"
      [] fn = "scan_dinf" ->
            IF boxtype = dref THEN "scan_dref" ELSE "skip"
      [] fn = "scan_dref" ->
            IF boxtype = url_ THEN "scan_url_"
            ELSE IF boxtype = urn_ THEN "scan_urn_" ELSE "skip"
      [] fn = "scan_edts" ->
            IF boxtype = elst THEN "scan_elst" ELSE "skip"
      [] OTHER -> "skip"      \* scan_stbl, scan_udta

\* the leaf decoder `dec`, or the skip path, applied at payload start p
Decode(dec, f, p, remaining) ==
    CASE dec = "scan_ftyp" -> scan_ftyp(f, p, remaining)
      [] dec = "scan_mvhd" -> scan_mvhd(f, p, remaining)
      [] dec = "scan_tkhd" -> scan_tkhd(f, p, remaining)
      [] dec = "scan_mdhd" -> scan_mdhd(f, p, remaining)
      [] dec = "scan_hdlr" -> scan_hdlr(f, p, remaining)
      [] dec = "scan_vmhd" -> scan_vmhd(f, p, remaining)
      [] dec = "scan_smhd" -> scan_smhd(f, p, remaining)
      [] dec = "scan_hmhd" -> scan_hmhd(f, p, remaining)
      [] dec = "scan_nmhd" -> scan_nmhd(f, p, remaining)
      [] dec = "scan_url_" -> scan_url_(f, p, remaining)
      [] dec = "scan_urn_" -> scan_urn_(f, p, remaining)
      [] dec = "scan_elst" -> scan_elst(f, p, remaining)
      [] OTHER -> seek_cur(Cursor(p), remaining)     \* self.file.seek(skip, os.SEEK_CUR)

----------------------------------------------------------------------------
(* Input files.  A producer's view of the format (ISO 14496-12 layouts),   *)
(* written independently of the decoders above.                            *)

Box(tag, payload) == BE(8 + Len(payload), 4) \o tag \o payload
Box64(tag, payload) == BE(1, 4) \o tag \o BE(16 + Len(payload), 8) \o payload
Box0(tag, payload) == BE(0, 4) \o tag \o payload
RawBox(size32, tag, payload) == BE(size32, 4) \o tag \o payload
RawBox64(size64, tag, payload) == BE(1, 4) \o tag \o BE(size64, 8) \o payload
FullPrefix(version, flags) == <<version>> \o BE(flags, 3)

\* a payload declared `pad` bytes longer (pad > 0) or shorter (pad < 0) than its layout
Padded(payload, pad) ==
    IF pad >= 0 THEN payload \o Zeros(pad)
    ELSE SubSeq(payload, 1, Max(0, Len(payload) + pad))

\* o = [v |-> version, kind |-> media header tag, tag |-> the box to pad, pad |-> by how much]
PadOf(o, tag) == IF o.tag = tag THEN o.pad ELSE 0
Leaf(o, tag, payload) == Box(tag, Padded(payload, PadOf(o, tag)))

Brand == <<109, 112, 52, 49>>        \* 'mp41'
Ftyp(o, n) ==
    Leaf(o, ftyp, <<105, 115, 111, 109>> \o BE(512, 4) \o Flatten([i \in 1..n |-> Brand]))
Free(n) == Box(free, Zeros(n))
Mvhd(o) == Leaf(o, mvhd, FullPrefix(o.v, 0) \o Zeros(IF o.v = 1 THEN 108 ELSE 96))
Tkhd(o) == Leaf(o, tkhd, FullPrefix(o.v, 1) \o Zeros(IF o.v = 1 THEN 92 ELSE 80))
Mdhd(o) == Leaf(o, mdhd, FullPrefix(o.v, 0) \o Zeros(IF o.v = 1 THEN 32 ELSE 20))
Hdlr(o) ==
    Leaf(o, hdlr, FullPrefix(0, 0) \o Zeros(4) \o <<118, 105, 100, 101>> \o Zeros(12)
                  \o <<86, 105, 100, 0>>)
MediaHeader(o) ==
    Leaf(o, o.kind, FullPrefix(0, 0) \o
         Zeros(CASE o.kind = vmhd -> 8 [] o.kind = smhd -> 4 [] o.kind = hmhd -> 16
                 [] OTHER -> 0))
Url(o, flags) ==
    Leaf(o, url_, FullPrefix(0, flags) \o (IF flags = 1 THEN <<>> ELSE <<104, 116, 0>>))
Urn(o) == Leaf(o, urn_, FullPrefix(0, 0) \o <<110, 0, 108, 0>>)
Dref(o) == Box(dref, FullPrefix(0, 0) \o BE(3, 4) \o Url(o, 1) \o Urn(o) \o Url(o, 0))
Elst(o) ==
    Leaf(o, elst, FullPrefix(o.v, 0) \o BE(1, 4) \o Zeros(IF o.v = 1 THEN 20 ELSE 12))
Udta == Box(udta, Free(2))
Minf(o) == Box(minf, MediaHeader(o) \o Box(dinf, Dref(o)) \o Box(stbl, Free(4)))
Mdia(o) == Box(mdia, Mdhd(o) \o Hdlr(o) \o Minf(o))
Trak(o) == Box(trak, Tkhd(o) \o Box(edts, Elst(o)) \o Mdia(o) \o Udta)
MoovPayload(o) == Mvhd(o) \o Trak(o) \o Udta

Exact(v, kind) == [v |-> v, kind |-> kind, tag |-> <<>>, pad |-> 0]
MediaKinds == {vmhd, smhd, hmhd, nmhd}
LeafTags == {ftyp, mvhd, tkhd, mdhd, hdlr, vmhd, smhd, hmhd, nmhd, url_, urn_, elst}

\* Files that are exactly a back-to-back sequence of well-formed boxes
ValidFirsts == {<<>>} \cup {Ftyp(Exact(0, vmhd), n) : n \in 0..MaxBrands}
ValidMoovs ==
    {Box(moov, MoovPayload(Exact(v, kind))) : v \in 0..1, kind \in MediaKinds}
    \cup {Box64(moov, Udta)}
ValidLasts ==
    {<<>>, Free(3), Box64(free, Zeros(2)), Box0(free, Zeros(5)), Box0(moov, <<>>),
     Box0(moov, Mvhd(Exact(1, vmhd)) \o Udta)}
ValidFiles ==
    {a \o b \o c : a \in ValidFirsts, b \in {<<>>} \cup ValidMoovs, c \in ValidLasts}

\* One recognized box declared 4 bytes longer or shorter than its layout
PaddedFiles ==
    {Ftyp([v |-> 0, kind |-> kind, tag |-> tag, pad |-> pad], 1)
       \o Box(moov, MoovPayload([v |-> 0, kind |-> kind, tag |-> tag, pad |-> pad]))
       \o Free(3)
     : kind \in {vmhd, nmhd}, tag \in LeafTags, pad \in {-4, -2, 4}}

\* Files cut short
CutBases ==
    {Ftyp(Exact(0, vmhd), 1) \o Free(3),
     Box(moov, Udta) \o Free(3),
     Box(moov, Mvhd(Exact(0, vmhd))),
     Box64(free, Zeros(2)),
     Free(0) \o Free(3),
     Box(moov, Box(trak, Box(mdia, Hdlr(Exact(0, vmhd)))))}
CutFiles == {SubSeq(f, 1, Len(f) - k) : f \in CutBases, k \in 1..MaxCut}

\* Headers whose declared size is arbitrary: at top level and inside a moov
\* (a size32 of 1 comes with its 64-bit size, from RawBox64)
RawTags == {free, moov, ftyp, udta}
RawHeaders ==
    {RawBox(s, t, Zeros(n)) : s \in (0..MaxRawSize) \ {1}, t \in RawTags, n \in {0, 4}}
    \cup {RawBox64(s, t, Zeros(n)) : s \in 0..(MaxRawSize + 8), t \in RawTags, n \in {0, 4}}
RawFiles ==
    {h \o Free(0) : h \in RawHeaders}
    \cup {Box(moov, h) \o Free(0) : h \in RawHeaders}

\* A child whose declared size runs past its parent: the parent's siblings follow
OverflowFiles ==
    {Box(moov, Box(udta, RawBox(8 + n + over, free, Zeros(n))) \o Free(0) \o Free(4))
       \o Free(8)
     : n \in {0, 4}, over \in 1..MaxRawSize}

\* An edit list announcing more entries than it holds; a URL with no terminator
ElstFiles ==
    {Box(moov, Box(trak, Box(edts,
        Box(elst, FullPrefix(v, 0) \o BE(n, 4) \o Zeros(12)) \o Free(0)) \o Udta))
     : v \in 0..1, n \in 0..3}
UrlFiles ==
    {Box(moov, Box(trak, Box(mdia, Box(minf, Box(dinf,
        Box(dref, FullPrefix(0, 0) \o BE(1, 4) \o
            Box(url_, FullPrefix(0, 0) \o <<104, 116>>) \o tail))))))
     : tail \in {<<>>, Free(0), Free(1)}}

\* Handler boxes whose name has no terminator, an embedded 0x00, or no bytes
HdlrNames == {<<>>, <<9, 71, 111>>, <<86, 0, 105>>, <<86, 105, 0>>}
HdlrFiles ==
    {Box(moov, Box(trak, Box(mdia,
        Box(hdlr, FullPrefix(0, 0) \o Zeros(4) \o <<118, 105, 100, 101>> \o Zeros(12)
                  \o name) \o tail)))
     : name \in HdlrNames, tail \in {<<>>, Free(0)}}

\* Every recognized tag outside its usual place: at top level and inside a moov
AllTags == {ftyp, moov, mvhd, trak, udta, tkhd, mdia, edts, mdhd, hdlr, minf, dinf,
            stbl, vmhd, smhd, hmhd, nmhd, dref, url_, urn_, elst}
MisplacedFiles ==
    {Box(t, Zeros(4)) \o Free(0) : t \in AllTags}
    \cup {Box(moov, Box(t, Zeros(4)) \o Free(0)) : t \in AllTags}

Files == ValidFiles \cup PaddedFiles \cup CutFiles \cup RawFiles \cup OverflowFiles
         \cup ElstFiles \cup UrlFiles \cup HdlrFiles \cup MisplacedFiles

----------------------------------------------------------------------------
(* The program *)

NoBox == [valid |-> FALSE, start |-> 0, size32 |-> 0, boxsize |-> 0, boxtype |-> <<>>,
          skip |-> 0, payload |-> 0, rangeEnd |-> 0, fn |-> "", dec |-> ""]

Frame(fn, chunkend, b) == [fn |-> fn, chunkend |-> chunkend, box |-> b]

Top == stack[Len(stack)]

Init ==
    /\ disk \in Files
    /\ fileExists \in BOOLEAN
    /\ pc = "main"
    /\ handleOpen = FALSE
    /\ filesize = 0
    /\ pos = 0
    /\ stack = <<>>
    /\ numBoxes = 0
    /\ exc = NoExc
    /\ tops = <<>>
    /\ box = NoBox
    /\ returned = NoBox
    /\ printed = FALSE

\* mp4.open("sample-video.mp4"): the builtin open raises IOError for a missing file
open ==
    /\ pc = "main"
    /\ IF fileExists
       THEN /\ handleOpen' = TRUE
            /\ filesize' = Len(disk)
            /\ pc' = "opened"
            /\ exc' = exc
       ELSE /\ exc' = "IOError"
            /\ pc' = "raised"
            /\ UNCHANGED <<handleOpen, filesize>>
    /\ pos' = 0
    /\ UNCHANGED <<disk, fileExists, stack, numBoxes, tops, box, returned, printed>>

\* scan(), up to its loop
scan ==
    /\ pc = "opened"
    /\ IF ~handleOpen
       THEN /\ exc' = "IOError"
            /\ pc' = "raised"
            /\ UNCHANGED <<pos, numBoxes, stack>>
       ELSE /\ pos' = 0
            /\ numBoxes' = 0
            /\ stack' = <<Frame("scan", filesize, NoBox)>>
            /\ pc' = "scanning"
            /\ exc' = exc
    /\ UNCHANGED <<disk, fileExists, handleOpen, filesize, tops, box, returned, printed>>

\* the except clause around scan_box in every loop
Catches(e) == e = "EOFError"

\* an exception leaves every active loop: no call site of a decoder is inside a try
Raise(e, p) ==
    /\ exc' = e
    /\ pos' = p
    /\ pc' = "raised"
    /\ stack' = <<>>
    /\ returned' = NoBox

\* a loop is left (by its condition or by break): the walker returns to its caller
Leave ==
    /\ stack' = SubSeq(stack, 1, Len(stack) - 1)
    /\ IF Top.fn = "scan"
       THEN /\ printed' = TRUE
            /\ pc' = "scanned"
            /\ returned' = NoBox
       ELSE /\ returned' = Top.box
            /\ UNCHANGED <<printed, pc>>
    /\ UNCHANGED <<exc>>

\* mutant: the end of the range taken to be the payload length alone
chunkend_no_tell(p, remaining) == remaining

\* chunkend = self.file.tell() + remaining, first statement of every walker
chunkend_of(p, remaining) == p + remaining

\* One iteration of the loop of the innermost active walker: scan_box, then
\* the if/elif chain, then the decoder chosen or the skip.
Iterate ==
    LET fr == Top
        h == scan_box(disk, filesize, pos)
        dec == Dispatch(fr.fn, h.boxtype)
        b == [valid |-> TRUE, start |-> pos, size32 |-> uint_at(disk, pos, 4),
              boxsize |-> h.boxsize, boxtype |-> h.boxtype, skip |-> h.skip,
              payload |-> h.pos, rangeEnd |-> fr.chunkend, fn |-> fr.fn, dec |-> dec]
        chunkend == chunkend_of(h.pos, h.skip)
        pre == IF dec = "scan_dref" THEN dref_prefix(disk, h.pos) ELSE Cursor(h.pos)
        c == Decode(dec, disk, h.pos, h.skip)
    IN  IF h.exc # NoExc
        THEN IF Catches(h.exc)
             THEN Leave /\ UNCHANGED <<pos, numBoxes, tops, box>>
             ELSE Raise(h.exc, h.pos) /\ UNCHANGED <<numBoxes, tops, box, printed>>
        ELSE /\ box' = b
             /\ numBoxes' = IF fr.fn = "scan" THEN numBoxes + 1 ELSE numBoxes
             /\ tops' = IF fr.fn = "scan" THEN Append(tops, <<pos, h.boxsize, h.boxtype>>) ELSE tops
             /\ printed' = printed
             /\ IF dec \in Containers
                THEN IF pre.exc # NoExc
                     THEN Raise(pre.exc, pre.pos)
                     ELSE /\ stack' = Append(stack, Frame(dec, chunkend, b))
                          /\ pos' = pre.pos
                          /\ returned' = NoBox
                          /\ UNCHANGED <<pc, exc>>
                ELSE IF c.exc # NoExc
                     THEN Raise(c.exc, c.pos)
                     ELSE /\ pos' = c.pos
                          /\ returned' = b
                          /\ UNCHANGED <<pc, exc, stack>>

\* scan(): one pass of `while self.file.tell() < self.filesize`
scan_loop ==
    /\ pc = "scanning"
    /\ stack # <<>>
    /\ Top.fn = "scan"
    /\ pos < filesize
    /\ numBoxes < NumBoxesCap
    /\ Iterate
    /\ UNCHANGED <<disk, fileExists, handleOpen, filesize>>

\* scan(): the loop condition fails; the count is printed and scan() returns
scan_end ==
    /\ pc = "scanning"
    /\ stack # <<>>
    /\ Top.fn = "scan"
    /\ ~(pos < filesize)
    /\ Leave
    /\ UNCHANGED <<disk, fileExists, handleOpen, filesize, pos, numBoxes, tops, box>>

\* a container walker: one pass of `while self.file.tell() < chunkend`
walk_loop ==
    /\ pc = "scanning"
    /\ stack # <<>>
    /\ Top.fn \in Containers
    /\ pos < Top.chunkend
    /\ Iterate
    /\ UNCHANGED <<disk, fileExists, handleOpen, filesize>>

\* a container walker: the loop condition fails and the walker returns
walk_end ==
    /\ pc = "scanning"
    /\ stack # <<>>
    /\ Top.fn \in Containers
    /\ ~(pos < Top.chunkend)
    /\ Leave
    /\ UNCHANGED <<disk, fileExists, handleOpen, filesize, pos, numBoxes, tops, box>>

\* mp4.close(), then print("Done.")
close ==
    /\ pc = "scanned"
    /\ handleOpen' = FALSE
    /\ filesize' = 0
    /\ pc' = "done"
    /\ UNCHANGED <<disk, fileExists, pos, stack, numBoxes, exc, tops, box, returned, printed>>

\* `except IOError as e` of the __main__ block: any other exception is not
\* caught and ends the program with a traceback, before print("Done.")
main_except ==
    /\ pc = "raised"
    /\ pc' = IF exc = "IOError" THEN "done" ELSE "crashed"
    /\ UNCHANGED <<disk, fileExists, handleOpen, filesize, pos, stack, numBoxes, exc,
                   tops, box, returned, printed>>

Next == open \/ scan \/ scan_loop \/ scan_end \/ walk_loop \/ walk_end \/ close
        \/ main_except

Spec == Init /\ [][Next]_vars

\* The program is a single thread that runs whenever it can.  The inputs of
\* this specification are files of one header with an arbitrary declared size,
\* at top level or inside a moov, followed by an empty free box.
LiveHeaders ==
    {RawBox(s, t, <<>>) : s \in (0..MaxRawSize) \ {1}, t \in {free, moov}}
    \cup {RawBox64(s, t, <<>>) : s \in 0..(MaxRawSize + 8), t \in {free, moov}}
LiveFiles ==
    {h \o Free(0) : h \in LiveHeaders} \cup {Box(moov, h) \o Free(0) : h \in LiveHeaders}

RawInit ==
    /\ disk \in LiveFiles
    /\ fileExists \in BOOLEAN
    /\ pc = "main"
    /\ handleOpen = FALSE
    /\ filesize = 0
    /\ pos = 0
    /\ stack = <<>>
    /\ numBoxes = 0
    /\ exc = NoExc
    /\ tops = <<>>
    /\ box = NoBox
    /\ returned = NoBox
    /\ printed = FALSE

FairSpec == RawInit /\ [][Next]_vars /\ WF_vars(Next)

TypeOK ==
    /\ pc \in {"main", "opened", "scanning", "scanned", "raised", "done", "crashed"}
    /\ pos \in Nat
    /\ numBoxes \in 0..NumBoxesCap
    /\ exc \in {NoExc, "IOError", "struct.error", "IndexError"}

----------------------------------------------------------------------------
(* Properties *)

LeafDecoders == {"scan_ftyp", "scan_mvhd", "scan_tkhd", "scan_mdhd", "scan_hdlr",
                 "scan_vmhd", "scan_smhd", "scan_hmhd", "scan_nmhd", "scan_url_",
                 "scan_urn_", "scan_elst"}

Finished == pc \in {"done", "crashed"}

\* C1: once the decoder of a box (or the skip) has returned, the cursor is at
\* box_start + total_size, whatever the decoder consumed.
Resynchronized ==
    returned.valid => pos = returned.start + returned.boxsize

\* C2: no header resolved inside a container walk whose payload runs past the
\* end of the enclosing range is dispatched or skipped.
NoOverflowDispatched ==
    (box.valid /\ box.fn \in Containers) => box.payload + box.skip <= box.rangeEnd

\* the top-level boxes of a file, by their declared sizes alone
RECURSIVE TopBoxes(_, _)
TopBoxes(f, o) ==
    IF o >= Len(f) THEN <<>>
    ELSE LET size32 == uint_at(f, o, 4)
             total == IF size32 = 1 THEN uint_at(f, o + 8, 8)
                      ELSE IF size32 = 0 THEN Len(f) - o ELSE size32
         IN  <<total>> \o TopBoxes(f, o + total)

RECURSIVE SumSizes(_)
SumSizes(ts) == IF ts = <<>> THEN 0 ELSE Head(ts)[2] + SumSizes(Tail(ts))

ValidInput == disk \in ValidFiles

\* C3: on a valid input the top-level boxes reported start at 0, each starts
\* where the previous one ends, no read fails, and when scan() has returned
\* their sizes add up to the file size and the count printed is the number of
\* top-level boxes of the file.
Tiling ==
    ValidInput =>
        /\ exc # NoExc => ~fileExists
        /\ \A i \in 1..Len(tops) :
             tops[i][1] = IF i = 1 THEN 0 ELSE tops[i - 1][1] + tops[i - 1][2]
        /\ numBoxes = Len(tops)
        /\ printed =>
             /\ SumSizes(tops) = Len(disk)
             /\ numBoxes = Len(TopBoxes(disk, 0))
             /\ \A i \in 1..Len(tops) : tops[i][2] = TopBoxes(disk, 0)[i]

TilingWitness ==
    /\ ValidInput
    /\ pc = "done"
    /\ printed
    /\ numBoxes = 3
    /\ tops[2][3] = moov
    /\ uint_at(disk, tops[2][1], 4) = 1
    /\ uint_at(disk, tops[3][1], 4) = 0

\* C4: the three size encodings of a box header, as scan_box returns them.
HeaderSizes ==
    box.valid =>
        LET hdr == box.payload - box.start IN
        /\ box.size32 = uint_at(disk, box.start, 4)
        /\ box.size32 = 1 =>
             /\ hdr = 16
             /\ box.boxsize = uint_at(disk, box.start + 8, 8)
             /\ box.skip = uint_at(disk, box.start + 8, 8) - 16
        /\ box.size32 = 0 =>
             /\ hdr = 8
             /\ box.boxsize = Len(disk) - box.start
             /\ box.skip = (Len(disk) - box.start) - 8
        /\ box.size32 \notin {0, 1} =>
             /\ hdr = 8
             /\ box.boxsize = box.size32
             /\ box.skip = box.size32 - 8
        /\ box.start + hdr + box.skip = box.start + box.boxsize

HeaderSizesWitness ==
    /\ box.valid
    /\ box.size32 = 0
    /\ box.start > 0
    /\ \E i \in 1..Len(tops) : uint_at(disk, tops[i][1], 4) = 1

IsRestOfFileMoov(b) == b.valid /\ b.fn = "scan" /\ b.boxtype = moov /\ b.size32 = 0

\* C5: a top-level moov with size32 == 0 is walked over exactly
\* [box_start + 8, filesize); when that walk has returned the top-level loop
\* condition is false, so no further top-level header is resolved, and the
\* moov is the last box counted.
RestOfFileMoov ==
    /\ \A k \in 1..Len(stack) :
         IsRestOfFileMoov(stack[k].box) =>
             /\ stack[k].fn = "scan_moov"
             /\ stack[k].box.payload = stack[k].box.start + 8
             /\ stack[k].chunkend = Len(disk)
    /\ IsRestOfFileMoov(returned) => ~(pos < filesize)
    /\ \A i \in 1..Len(tops) :
         (tops[i][3] = moov /\ uint_at(disk, tops[i][1], 4) = 0) =>
             /\ i = Len(tops)
             /\ numBoxes = i

RestOfFileMoovWitness ==
    /\ pc = "done"
    /\ printed
    /\ Len(tops) = 2
    /\ tops[2][3] = moov
    /\ uint_at(disk, tops[2][1], 4) = 0
    /\ box.fn = "scan_udta"

\* C6: no header makes the cursor return to a position from which the same
\* header is resolved again: the top-level loop never resolves a header at an
\* offset where it has resolved one before.  (The scan is a deterministic
\* function of the cursor and the unchanging file, so a header resolved twice
\* by the same loop is resolved forever.)
NoHeaderResolvedAgain ==
    \A i, j \in 1..Len(tops) : i < j => tops[i][1] # tops[j][1]

\* the same as a liveness property, under FairSpec: every scan ends, by
\* reaching the end of its range or by an error
Termination == <>Finished

\* C7: a leaf decoder called at payload start p with payload length L leaves
\* the cursor no further than p + L.
DecodersStayInside ==
    (returned.valid /\ returned.dec \in LeafDecoders) =>
        pos <= returned.payload + returned.skip

\* a loop is about to resolve a header with fewer than 8 bytes before end of file
HeaderCutShort ==
    /\ pc = "scanning"
    /\ stack # <<>>
    /\ pos < Top.chunkend
    /\ Len(disk) - pos < 8

\* C8: a header read that fails for lack of bytes is caught by the loop that
\* made it: no exception leaves the loop.
HeaderEndIsCompletion == [][HeaderCutShort => pc' # "raised"]_vars

\* C9: no run stops with the file still open.
HandleReleased == Finished => ~handleOpen

VersionedDecoders == {"scan_mvhd", "scan_mdhd", "scan_tkhd"}

\* the same file with the version byte of the full box at payload start p flipped
VersionFlipped(f, p) == [f EXCEPT ![p + 1] = 1 - f[p + 1]]

\* the version-dependent fields of a versioned decoder
TimesOf(dec, version) ==
    CASE dec = "scan_mvhd" -> mvhd_times(version)
      [] dec = "scan_mdhd" -> mdhd_times(version)
      [] OTHER -> tkhd_times(version)

\* exactly three fields differ between the two layouts, each wider by w in
\* version 1; every other field has the same width
ThreeWidened(t1, t0, w) ==
    /\ Len(t1) = Len(t0)
    /\ Cardinality({i \in 1..Len(t1) : t1[i] # t0[i]}) = 3
    /\ \A i \in 1..Len(t1) : t1[i] # t0[i] => (t1[i][1] = t0[i][1] /\ t1[i][2] = t0[i][2] + w)

\* A versioned decoder has returned: decoding the same bytes under the other
\* version (when the file has the bytes for it) moves the cursor 3 * w bytes
\* further for version 1 than for version 0, w for each of three fields.
VersionWidths(w) ==
    (/\ returned.valid
     /\ returned.dec \in VersionedDecoders
     /\ disk[returned.payload + 1] \in {0, 1}) =>
        LET p == returned.payload
            other == Decode(returned.dec, VersionFlipped(disk, p), p, returned.skip)
        IN  /\ ThreeWidened(TimesOf(returned.dec, 1), TimesOf(returned.dec, 0), w)
            /\ other.exc = NoExc =>
                 IF disk[p + 1] = 1
                 THEN pos - p = (other.pos - p) + 3 * w
                 ELSE other.pos - p = (pos - p) + 3 * w

\* C10 as stated: a version-1 mvhd, mdhd or tkhd decode moves the cursor 8
\* bytes further per widened field, 24 bytes further in all, than version 0.
VersionWidthsBy8 == VersionWidths(8)

\* C10 as amended: a version-1 mvhd, mdhd or tkhd decode moves the cursor 4
\* bytes further per widened field (8 bytes wide instead of 4), 12 bytes
\* further in all, than version 0; every other field has the same width.
VersionWidthsBy4 == VersionWidths(4)

VersionWidthsWitness ==
    /\ returned.valid
    /\ returned.dec = "scan_mvhd"
    /\ disk[returned.payload + 1] = 1
    /\ Decode("scan_mvhd", VersionFlipped(disk, returned.payload), returned.payload,
              returned.skip).exc = NoExc
    /\ pos - returned.payload = 112

\* an hdlr box whose declared payload holds the 24 bytes of fixed fields has
\* been decoded
HdlrDecoded ==
    /\ returned.valid
    /\ returned.dec = "scan_hdlr"
    /\ returned.skip >= 24

\* the name printed is the bytes from the end of the fixed fields to the
\* declared end of the box, and the cursor is at that end
HdlrNameToBoxEnd ==
    LET p == returned.payload
        name == hdlr_name(disk, p, returned.skip)
    IN  /\ Len(name) = returned.skip - 24
        /\ \A i \in 1..Len(name) : name[i] = disk[p + 24 + i]
        /\ pos = p + returned.skip

\* C11: for an hdlr box whose declared payload holds at least the 24 bytes of
\* fixed fields, the name is exactly the bytes up to the box's declared end,
\* with or without a 0x00 among them, and the decoder returns with the cursor
\* at that end.
HdlrNameCapture == HdlrDecoded => HdlrNameToBoxEnd

\* the same, for the boxes whose declared end lies inside the file
HdlrNameCaptureInFile ==
    (HdlrDecoded /\ returned.payload + returned.skip <= Len(disk)) => HdlrNameToBoxEnd

\* the decoder named after a tag, "skip" for a tag no walker names
DecoderOf(tag) ==
    CASE tag = ftyp -> "scan_ftyp" [] tag = moov -> "scan_moov" [] tag = mvhd -> "scan_mvhd"
      [] tag = trak -> "scan_trak" [] tag = udta -> "scan_udta" [] tag = tkhd -> "scan_tkhd"
      [] tag = mdia -> "scan_mdia" [] tag = edts -> "scan_edts" [] tag = mdhd -> "scan_mdhd"
      [] tag = hdlr -> "scan_hdlr" [] tag = minf -> "scan_minf" [] tag = dinf -> "scan_dinf"
      [] tag = stbl -> "scan_stbl" [] tag = vmhd -> "scan_vmhd" [] tag = smhd -> "scan_smhd"
      [] tag = hmhd -> "scan_hmhd" [] tag = nmhd -> "scan_nmhd" [] tag = dref -> "scan_dref"
      [] tag = url_ -> "scan_url_" [] tag = urn_ -> "scan_urn_" [] tag = elst -> "scan_elst"
      [] OTHER -> "skip"

\* the walkers in whose range a tag is decoded
DecodedIn(tag) ==
    CASE tag \in {ftyp, moov} -> {"scan"}
      [] tag \in {mvhd, trak} -> {"scan_moov"}
      [] tag = udta -> {"scan_moov", "scan_trak"}
      [] tag \in {tkhd, mdia, edts} -> {"scan_trak"}
      [] tag \in {mdhd, hdlr, minf} -> {"scan_mdia"}
      [] tag \in {dinf, stbl, vmhd, smhd, hmhd, nmhd} -> {"scan_minf"}
      [] tag = dref -> {"scan_dinf"}
      [] tag \in {url_, urn_} -> {"scan_dref"}
      [] tag = elst -> {"scan_edts"}
      [] OTHER -> {}

\* C12 as stated: the decoder applied to a box is a function of its tag alone,
\* the same in every range; only tags that no decoder is named after are
\* skipped.
DispatchByTagAlone ==
    box.valid => box.dec = DecoderOf(box.boxtype)

\* C12 as amended: the decoder applied to a box is a function of its tag and
\* of the walker whose range it is in: inside the walkers that name the tag it
\* is the decoder of that tag (the same one in moov and in trak for udta), and
\* everywhere else the box is skipped, recognized tag or not.
DispatchByTagAndRange ==
    box.valid =>
        box.dec = IF box.fn \in DecodedIn(box.boxtype) THEN DecoderOf(box.boxtype)
                  ELSE "skip"

DispatchWitness ==
    /\ box.valid
    /\ box.boxtype = hdlr
    /\ box.fn = "scan_mdia"
    /\ box.dec = "scan_hdlr"
    /\ Len(stack) = 4
    /\ stack[2].fn = "scan_moov"
    /\ stack[3].fn = "scan_trak"

====
